---- MODULE Spec2Model ----
(***************************************************************************)
(* correct_gband (GCorrectionCode.ipynb, cell 2): the G-band magnitude and *)
(* flux correction for Gaia EDR3 sources with 6-parameter astrometric      *)
(* solutions, as a state machine that runs one call at a time through the  *)
(* statements of the function.                                             *)
(*                                                                         *)
(* Numbers are fixed-point integers:                                       *)
(*   colour      in units of 1/ColourScale          (1.5   is 6)           *)
(*   magnitude   in units of 1/MagScale             (17.0  is 17000000)    *)
(*   flux        in units of 1/FluxScale            (1000. is 1000000)     *)
(*   solution code in units of 1/CodeScale          (95 is 190, 95.5 191)  *)
(*   correction factor in units of 1/FactorScale    (1.0 is 6400000)       *)
(* The cubic in the colour is exact at FactorScale.  A product or a        *)
(* logarithm is rounded to the nearest unit of its result, as a floating   *)
(* point operation rounds to the nearest representable number; x*1 and     *)
(* log10(1) are exact.  NaN is one value that every comparison rejects and *)
(* every arithmetic operation propagates.                                  *)
(***************************************************************************)
EXTENDS Integers, Sequences, FiniteSets, TLC

VARIABLES
    pc,                         \* the statement the call is at
    args,                       \* the caller's four objects
    passed,                     \* a copy of them the caller took before the call
    bp_rp,                      \* the function's local bindings ...
    astrometric_params_solved,
    phot_g_mean_mag,
    phot_g_mean_flux,
    do_not_correct,             \* ... and the values it computes
    bright_correct,
    faint_correct,
    bp_rp_c,
    correction_factor,
    gmag_corrected,
    gflux_corrected,
    error                       \* the exception the call ended with, or "none"

vars == <<pc, args, passed, bp_rp, astrometric_params_solved, phot_g_mean_mag,
          phot_g_mean_flux, do_not_correct, bright_correct, faint_correct,
          bp_rp_c, correction_factor, gmag_corrected, gflux_corrected, error>>

(***************************************************************************)
(* Bounds and number representation                                        *)
(***************************************************************************)
MaxLen == 2                     \* longest input array of a call

NaN == -999999999
ColourScale == 4
CodeScale == 2
MagScale == 1000000
FluxScale == 1000
CoefScale == 100000             \* the coefficients have five decimals
FactorScale == CoefScale * ColourScale * ColourScale * ColourScale
LogScale == 100000000           \* resolution of the logarithm's series

(***************************************************************************)
(* Program constants                                                       *)
(***************************************************************************)
SixParameter == 95              \* astrometric_params_solved of a 6-p solution
GBright == 13                   \* no correction at or below this magnitude
GFaint == 16                    \* bright regime at or below, faint above
ClipLo == 1                     \* 0.25 in colour units
ClipHi == 12                    \* 3.0  in colour units
ShapeError == "ValueError: Function parameters must be of the same shape!"
\* line 82: what reading .shape of an object without one raises
NoShapeError == "AttributeError: object has no attribute 'shape'"

(***************************************************************************)
(* Floating point: NaN, comparisons, arithmetic                            *)
(***************************************************************************)
IsNaN(x) == x = NaN

Gt(x, t) == ~IsNaN(x) /\ x > t
Le(x, t) == ~IsNaN(x) /\ x <= t

Abs(x) == IF x < 0 THEN -x ELSE x
Sign(x) == IF x < 0 THEN -1 ELSE 1

\* <<q, r>> with a*b = q*d + r and 0 <= r < d, for a, b >= 0 and d > 0,
\* by binary long multiplication: no intermediate exceeds 2*d + b.
RECURSIVE MulDivQR(_, _, _)
MulDivQR(a, b, d) ==
    IF a = 0 THEN <<0, 0>>
    ELSE LET h == MulDivQR(a \div 2, b, d)
             r == 2 * h[2] + (a % 2) * b
         IN  <<2 * h[1] + (r \div d), r % d>>

\* a*b/d rounded to the nearest integer (ties away from zero)
MulDiv(a, b, d) ==
    LET qr == MulDivQR(Abs(a), Abs(b), d)
        q  == IF 2 * qr[2] >= d THEN qr[1] + 1 ELSE qr[1]
    IN  Sign(a) * Sign(b) * q

\* the natural logarithm in place of the logarithm to base 10
Log10Natural(F) ==
    IF IsNaN(F) \/ F <= 0 THEN NaN
    ELSE LET z   == MulDiv(F - FactorScale, LogScale, F + FactorScale)
             z2  == MulDiv(z, z, LogScale)
             z3  == MulDiv(z2, z, LogScale)
         IN  2 * (z + MulDiv(z3, 1, 3))

\* log10 of a factor f = F/FactorScale, in units of 1/LogScale, from
\* ln f = 2*(z + z^3/3 + ...) with z = (f-1)/(f+1); the factors of the two
\* cubics lie within 3% of 1, where the next term is below one unit.
\* log10 of a NaN, and of a factor that is not positive, is not a number.
Log10(F) ==
    IF IsNaN(F) \/ F <= 0 THEN NaN
    ELSE LET z   == MulDiv(F - FactorScale, LogScale, F + FactorScale)
             z2  == MulDiv(z, z, LogScale)
             z3  == MulDiv(z2, z, LogScale)
             ln  == 2 * (z + MulDiv(z3, 1, 3))
         IN  MulDiv(ln, 43429448, LogScale)      \* 1/ln(10) = 0.43429448

\* 2.5*np.log10(f), in magnitude units
TwoPointFiveLog10(F) ==
    IF IsNaN(Log10(F)) THEN NaN
    ELSE MulDiv(Log10(F), (25 * MagScale) \div 10, LogScale)

Minus(x, y) == IF IsNaN(x) \/ IsNaN(y) THEN NaN ELSE x - y

\* flux * factor, in flux units
TimesFactor(f, F) ==
    IF IsNaN(f) \/ IsNaN(F) THEN NaN ELSE MulDiv(f, F, FactorScale)

(***************************************************************************)
(* Values: a Python scalar, a numpy scalar, a one-dimensional ndarray, or  *)
(* a Python list (or tuple) of numbers                                     *)
(***************************************************************************)
Value(kind, val) == [kind |-> kind, val |-> val]
Unset == Value("unset", <<>>)

\* np.isscalar: true of a Python or numpy number, false of an array and of a
\* Python list or tuple
IsScalar(x) == x.kind \in {"pyscalar", "npscalar"}

\* a Python list or tuple taken to have a .shape as an array has
HasShapeWithLists(x) == x.kind \in {"npscalar", "ndarray", "list"}

\* what has a .shape attribute: numpy scalars and arrays; a Python number,
\* list or tuple has none
HasShape(x) == x.kind \in {"npscalar", "ndarray"}

\* a scalar taken for an array of one element
ShapeScalarAsOne(x) == <<Len(x.val)>>

\* .shape: () for a numpy scalar, (n,) for an array
Shape(x) == IF x.kind = "ndarray" THEN <<Len(x.val)>> ELSE <<>>

\* np.float64(x): a Python or numpy scalar becomes a numpy float64 scalar, an
\* array, list or tuple an array of float64; the values, NaN included, are kept.
Float64(x) ==
    Value(IF IsScalar(x) THEN "npscalar" ELSE "ndarray", x.val)

\* conversion of one number to a 64-bit integer: truncation towards zero
TruncToInt(v) == Sign(v) * (Abs(v) \div CodeScale) * CodeScale

\* np.int64(x)
Int64(x) ==
    Value(IF IsScalar(x) THEN "npscalar" ELSE "ndarray",
          [i \in 1..Len(x.val) |-> TruncToInt(x.val[i])])

(***************************************************************************)
(* The statements of correct_gband, as functions of the values they read   *)
(***************************************************************************)
\* line 75-76: the test that selects the casts
AnyScalar(b, a, m, f) ==
    IsScalar(b) \/ IsScalar(a) \/ IsScalar(m) \/ IsScalar(f)

\* the casts with the flux left as it was passed
CastsWithoutFlux(b, a, m, f) ==
    IF AnyScalar(b, a, m, f)
    THEN <<Float64(b), Int64(a), Float64(m), f>>
    ELSE <<b, a, m, f>>

\* lines 75-80: the four bindings after the conditional casts
Casts(b, a, m, f) ==
    IF AnyScalar(b, a, m, f)
    THEN <<Float64(b), Int64(a), Float64(m), Float64(f)>>
    ELSE <<b, a, m, f>>

\* line 82: the chain of comparisons reads the .shape of its operands from
\* left to right and stops at the first unequal pair; it fails on the first
\* operand it reads that has no .shape
NoShapeRead(b, a, m, f) ==
    \/ ~HasShape(b)
    \/ ~HasShape(a)
    \/ /\ Shape(b) = Shape(a)
       /\ \/ ~HasShape(m)
          \/ Shape(a) = Shape(m) /\ ~HasShape(f)

\* the chain of comparisons cut short: the flux is not compared
ShapesEqualFirstThree(b, a, m, f) ==
    Shape(b) = Shape(a) /\ Shape(a) = Shape(m)

\* line 82: bp_rp.shape == aps.shape == mag.shape == flux.shape
ShapesEqual(b, a, m, f) ==
    Shape(b) = Shape(a) /\ Shape(a) = Shape(m) /\ Shape(m) = Shape(f)

\* the mask without its test for a missing colour
DoNotCorrectAtNoNaN(c, a, m) ==
    Le(m, GBright * MagScale) \/ a # SixParameter * CodeScale

\* line 85, one element
DoNotCorrectAt(c, a, m) ==
    IsNaN(c) \/ Le(m, GBright * MagScale) \/ a # SixParameter * CodeScale

\* the bright regime without its upper limit
BrightCorrectAtNoUpper(dnc, m) == ~dnc /\ Gt(m, GBright * MagScale)

\* the bright regime ending below 16 instead of at 16
BrightCorrectAtStrict(dnc, m) ==
    ~dnc /\ Gt(m, GBright * MagScale) /\ Le(m, GFaint * MagScale - 1)

\* line 86, one element
BrightCorrectAt(dnc, m) ==
    ~dnc /\ Gt(m, GBright * MagScale) /\ Le(m, GFaint * MagScale)

\* line 87, one element
FaintCorrectAt(dnc, m) == ~dnc /\ Gt(m, GFaint * MagScale)

\* the clip without its upper limit
ClipAtLowerOnly(c) ==
    IF IsNaN(c) THEN NaN
    ELSE IF c < ClipLo THEN ClipLo
    ELSE c

\* line 88, one element: np.clip(c, 0.25, 3.0); a NaN stays a NaN
ClipAt(c) ==
    IF IsNaN(c) THEN NaN
    ELSE IF c < ClipLo THEN ClipLo
    ELSE IF c > ClipHi THEN ClipHi
    ELSE c

\* the cubic with its third-order term added instead of subtracted
CubicPlusThird(a0, a1, a2, a3, c) ==
    IF IsNaN(c) THEN NaN
    ELSE   a0 * ColourScale * ColourScale * ColourScale
         - a1 * ColourScale * ColourScale * c
         + a2 * ColourScale * c * c
         + a3 * c * c * c

\* a0 - a1*c + a2*c^2 - a3*c^3 at FactorScale, the coefficients at CoefScale
Cubic(a0, a1, a2, a3, c) ==
    IF IsNaN(c) THEN NaN
    ELSE   a0 * ColourScale * ColourScale * ColourScale
         - a1 * ColourScale * ColourScale * c
         + a2 * ColourScale * c * c
         - a3 * c * c * c

\* the faint regime with the coefficients of the bright regime
FaintFactorBrightCoefficients(c) == Cubic(100876, 2540, 1747, 277, c)

\* lines 91-92: 1.00525 - 0.02323 c + 0.01740 c^2 - 0.00253 c^3
FaintFactor(c) == Cubic(100525, 2323, 1740, 253, c)

\* lines 93-94: 1.00876 - 0.02540 c + 0.01747 c^2 - 0.00277 c^3
BrightFactor(c) == Cubic(100876, 2540, 1747, 277, c)

\* line 85
DoNotCorrect(b, a, m) ==
    Value(m.kind, [i \in 1..Len(m.val) |-> DoNotCorrectAt(b.val[i], a.val[i], m.val[i])])

\* line 86
BrightCorrect(dnc, m) ==
    Value(m.kind, [i \in 1..Len(m.val) |-> BrightCorrectAt(dnc.val[i], m.val[i])])

\* line 87
FaintCorrect(dnc, m) ==
    Value(m.kind, [i \in 1..Len(m.val) |-> FaintCorrectAt(dnc.val[i], m.val[i])])

\* line 88
Clip(b) == Value(b.kind, [i \in 1..Len(b.val) |-> ClipAt(b.val[i])])

\* line 90: np.ones_like(phot_g_mean_mag)
OnesLike(m) == Value(m.kind, [i \in 1..Len(m.val) |-> FactorScale])

\* lines 91-92: correction_factor[faint_correct] = cubic(bp_rp_c[faint_correct])
AssignFaint(cf, mask, c) ==
    Value(cf.kind, [i \in 1..Len(cf.val) |->
                      IF mask.val[i] THEN FaintFactor(c.val[i]) ELSE cf.val[i]])

\* lines 93-94: correction_factor[bright_correct] = cubic(bp_rp_c[bright_correct])
AssignBright(cf, mask, c) ==
    Value(cf.kind, [i \in 1..Len(cf.val) |->
                      IF mask.val[i] THEN BrightFactor(c.val[i]) ELSE cf.val[i]])

\* the magnitude with 2.5*log10(factor) added instead of subtracted
GmagCorrectedPlus(m, cf) ==
    Value(m.kind, [i \in 1..Len(m.val) |->
                     Minus(m.val[i], Minus(0, TwoPointFiveLog10(cf.val[i])))])

\* line 96: phot_g_mean_mag - 2.5*np.log10(correction_factor)
GmagCorrected(m, cf) ==
    Value(m.kind, [i \in 1..Len(m.val) |->
                     Minus(m.val[i], TwoPointFiveLog10(cf.val[i]))])

\* the corrected flux always handed back as an array, of one element for a
\* scalar call
GfluxCorrectedAsArray(f, cf) ==
    Value("ndarray", [i \in 1..Len(f.val) |-> TimesFactor(f.val[i], cf.val[i])])

\* the flux divided by the factor instead of multiplied
GfluxCorrectedDivide(f, cf) ==
    Value(f.kind, [i \in 1..Len(f.val) |->
                     IF IsNaN(f.val[i]) THEN NaN
                     ELSE MulDiv(f.val[i], FactorScale, cf.val[i])])

\* line 97: phot_g_mean_flux * correction_factor
GfluxCorrected(f, cf) ==
    Value(f.kind, [i \in 1..Len(f.val) |-> TimesFactor(f.val[i], cf.val[i])])

\* the shape check moved behind the computation
StepAfterCheckLast(p) ==
    CASE p = "cast"    -> "masks"
      [] p = "masks"   -> "clip"
      [] p = "clip"    -> "ones"
      [] p = "ones"    -> "faint"
      [] p = "faint"   -> "bright"
      [] p = "bright"  -> "outputs"
      [] p = "outputs" -> "check"
      [] p = "check"   -> "return"
      [] p = "return"  -> "returned"

\* the order of the statements
StepAfter(p) ==
    CASE p = "cast"    -> "check"
      [] p = "check"   -> "masks"
      [] p = "masks"   -> "clip"
      [] p = "clip"    -> "ones"
      [] p = "ones"    -> "faint"
      [] p = "faint"   -> "bright"
      [] p = "bright"  -> "outputs"
      [] p = "outputs" -> "return"
      [] p = "return"  -> "returned"

\* lines 85-94: the correction factor of bindings that passed the check
CorrectionFactor(b, a, m) ==
    LET dnc == DoNotCorrect(b, a, m)
        c   == Clip(b)
    IN  AssignBright(AssignFaint(OnesLike(m), FaintCorrect(dnc, m), c),
                     BrightCorrect(dnc, m), c)

\* lines 46-99: what a call ends with
correct_gband(b, a, m, f) ==
    LET c == Casts(b, a, m, f)
    IN  IF NoShapeRead(c[1], c[2], c[3], c[4])
        THEN [error |-> NoShapeError, gmag |-> Unset, gflux |-> Unset]
        ELSE IF ~ShapesEqual(c[1], c[2], c[3], c[4])
        THEN [error |-> ShapeError, gmag |-> Unset, gflux |-> Unset]
        ELSE LET cf == CorrectionFactor(c[1], c[2], c[3])
             IN  [error |-> "none",
                  gmag  |-> GmagCorrected(c[3], cf),
                  gflux |-> GfluxCorrected(c[4], cf)]

(***************************************************************************)
(* The inputs of a call                                                    *)
(***************************************************************************)
\* the element values calls are made with
\* NaN, -0.5, 0.25, 0.5, 0.75, 1.0, 1.5, 3.0, 3.5
Colours == <<NaN, -2, 1, 2, 3, 4, 6, 12, 14>>
\* (a solution code is a number: 95, a non-integer next to it, and another)
Codes   == <<SixParameter * CodeScale,       \* 95
             SixParameter * CodeScale + 1,   \* 95.5
             31 * CodeScale>>                \* 31, a 5-parameter solution
Mags    == <<NaN,
             GBright * MagScale, GBright * MagScale + 1,
             GFaint * MagScale, GFaint * MagScale + 1,
             17 * MagScale>>
Fluxes  == <<NaN, 1000 * FluxScale, 0, -(5 * FluxScale) \div 2>>

NRows == Len(Colours) * Len(Codes) * Len(Mags) * Len(Fluxes)

\* row r of the table of sources: every combination of the element values
Row(r) ==
    [bp_rp |-> Colours[(r % Len(Colours)) + 1],
     astrometric_params_solved |->
         Codes[((r \div Len(Colours)) % Len(Codes)) + 1],
     phot_g_mean_mag |->
         Mags[((r \div (Len(Colours) * Len(Codes))) % Len(Mags)) + 1],
     phot_g_mean_flux |->
         Fluxes[((r \div (Len(Colours) * Len(Codes) * Len(Mags))) % Len(Fluxes)) + 1]]

\* the j-th source of a selection that starts at row r
RowAt(r, j) == (r + 101 * j) % NRows

\* one column of the selection: a Python scalar (n = 0), or an array of n values
Scalar(v) == Value("pyscalar", <<v>>)
ColumnBpRp(r, n) ==
    IF n = 0 THEN Scalar(Row(r).bp_rp)
    ELSE Value("ndarray", [j \in 1..n |-> Row(RowAt(r, j - 1)).bp_rp])
ColumnAps(r, n) ==
    IF n = 0 THEN Scalar(Row(r).astrometric_params_solved)
    ELSE Value("ndarray", [j \in 1..n |-> Row(RowAt(r, j - 1)).astrometric_params_solved])
ColumnMag(r, n) ==
    IF n = 0 THEN Scalar(Row(r).phot_g_mean_mag)
    ELSE Value("ndarray", [j \in 1..n |-> Row(RowAt(r, j - 1)).phot_g_mean_mag])
ColumnFlux(r, n) ==
    IF n = 0 THEN Scalar(Row(r).phot_g_mean_flux)
    ELSE Value("ndarray", [j \in 1..n |-> Row(RowAt(r, j - 1)).phot_g_mean_flux])

\* the values of a column in a Python list or tuple, not cast to an array
AsList(x) == IF x.kind = "ndarray" THEN Value("list", x.val) ELSE x

\* what a statement of lines 85-97 leaves in the caller's four objects: each
\* builds a new object (np.clip is called without out=, np.ones_like
\* allocates, the indexed assignments of lines 91-94 write into that new
\* array, the masks and the outputs are results of operators), so the
\* caller's objects are as they were
CallerAfterClipInPlace(a, stmt, v) ==
    IF stmt = "clip" THEN [a EXCEPT !.bp_rp = v] ELSE a
CallerAfter(a, stmt, v) == a

NoArgs == [bp_rp |-> Unset, astrometric_params_solved |-> Unset,
           phot_g_mean_mag |-> Unset, phot_g_mean_flux |-> Unset]

(***************************************************************************)
(* The state machine                                                       *)
(***************************************************************************)
Init ==
    /\ pc = "idle"
    /\ args = NoArgs
    /\ passed = NoArgs
    /\ bp_rp = Unset
    /\ astrometric_params_solved = Unset
    /\ phot_g_mean_mag = Unset
    /\ phot_g_mean_flux = Unset
    /\ do_not_correct = Unset
    /\ bright_correct = Unset
    /\ faint_correct = Unset
    /\ bp_rp_c = Unset
    /\ correction_factor = Unset
    /\ gmag_corrected = Unset
    /\ gflux_corrected = Unset
    /\ error = "none"

computed == <<do_not_correct, bright_correct, faint_correct, bp_rp_c,
              correction_factor, gmag_corrected, gflux_corrected>>
locals == <<bp_rp, astrometric_params_solved, phot_g_mean_mag, phot_g_mean_flux>>

\* line 46: the call binds the four parameters
Call ==
    /\ pc = "idle"
    /\ \E r \in 0..(NRows - 1), nb, na, nm, nf \in 0..MaxLen :
          /\ args' = [bp_rp |-> ColumnBpRp(r, nb),
                      astrometric_params_solved |-> ColumnAps(r, na),
                      phot_g_mean_mag |-> ColumnMag(r, nm),
                      phot_g_mean_flux |-> ColumnFlux(r, nf)]
          /\ bp_rp' = ColumnBpRp(r, nb)
          /\ astrometric_params_solved' = ColumnAps(r, na)
          /\ phot_g_mean_mag' = ColumnMag(r, nm)
          /\ phot_g_mean_flux' = ColumnFlux(r, nf)
    /\ passed' = args'
    /\ pc' = "cast"
    /\ UNCHANGED <<computed, error>>

\* line 46, for a caller that passes Python lists or tuples: every parameter
\* is a list (n >= 1 values) or a scalar, and at least one is a list
CallWithLists ==
    /\ pc = "idle"
    /\ \E r \in 0..(NRows - 1), nb, na, nm, nf \in 0..MaxLen :
          /\ nb + na + nm + nf > 0
          /\ args' = [bp_rp |-> AsList(ColumnBpRp(r, nb)),
                      astrometric_params_solved |-> AsList(ColumnAps(r, na)),
                      phot_g_mean_mag |-> AsList(ColumnMag(r, nm)),
                      phot_g_mean_flux |-> AsList(ColumnFlux(r, nf))]
          /\ bp_rp' = AsList(ColumnBpRp(r, nb))
          /\ astrometric_params_solved' = AsList(ColumnAps(r, na))
          /\ phot_g_mean_mag' = AsList(ColumnMag(r, nm))
          /\ phot_g_mean_flux' = AsList(ColumnFlux(r, nf))
    /\ passed' = args'
    /\ pc' = "cast"
    /\ UNCHANGED <<computed, error>>

\* lines 75-80
CastScalars ==
    /\ pc = "cast"
    /\ LET c == Casts(bp_rp, astrometric_params_solved, phot_g_mean_mag,
                      phot_g_mean_flux)
       IN  /\ bp_rp' = c[1]
           /\ astrometric_params_solved' = c[2]
           /\ phot_g_mean_mag' = c[3]
           /\ phot_g_mean_flux' = c[4]
    /\ pc' = StepAfter(pc)
    /\ UNCHANGED <<args, computed, error, passed>>

\* lines 82-83
CheckShapes ==
    /\ pc = "check"
    /\ IF NoShapeRead(bp_rp, astrometric_params_solved, phot_g_mean_mag,
                      phot_g_mean_flux)
       THEN pc' = "raised" /\ error' = NoShapeError
       ELSE IF ShapesEqual(bp_rp, astrometric_params_solved, phot_g_mean_mag,
                           phot_g_mean_flux)
       THEN pc' = StepAfter(pc) /\ error' = error
       ELSE pc' = "raised" /\ error' = ShapeError
    /\ UNCHANGED <<args, locals, computed, passed>>

\* lines 85-87
Masks ==
    /\ pc = "masks"
    /\ do_not_correct' = DoNotCorrect(bp_rp, astrometric_params_solved, phot_g_mean_mag)
    /\ bright_correct' = BrightCorrect(do_not_correct', phot_g_mean_mag)
    /\ faint_correct' = FaintCorrect(do_not_correct', phot_g_mean_mag)
    /\ args' = CallerAfter(args, "masks", do_not_correct')
    /\ pc' = StepAfter(pc)
    /\ UNCHANGED <<locals, bp_rp_c, correction_factor, gmag_corrected,
                   gflux_corrected, error, passed>>

\* line 88
ClipColour ==
    /\ pc = "clip"
    /\ bp_rp_c' = Clip(bp_rp)
    /\ args' = CallerAfter(args, "clip", bp_rp_c')
    /\ pc' = StepAfter(pc)
    /\ UNCHANGED <<locals, do_not_correct, bright_correct, faint_correct,
                   correction_factor, gmag_corrected, gflux_corrected, error, passed>>

\* line 90
FactorOnes ==
    /\ pc = "ones"
    /\ correction_factor' = OnesLike(phot_g_mean_mag)
    /\ args' = CallerAfter(args, "ones", correction_factor')
    /\ pc' = StepAfter(pc)
    /\ UNCHANGED <<locals, do_not_correct, bright_correct, faint_correct,
                   bp_rp_c, gmag_corrected, gflux_corrected, error, passed>>

\* lines 91-92
FactorFaint ==
    /\ pc = "faint"
    /\ correction_factor' = AssignFaint(correction_factor, faint_correct, bp_rp_c)
    /\ args' = CallerAfter(args, "faint", correction_factor')
    /\ pc' = StepAfter(pc)
    /\ UNCHANGED <<locals, do_not_correct, bright_correct, faint_correct,
                   bp_rp_c, gmag_corrected, gflux_corrected, error, passed>>

\* lines 93-94
FactorBright ==
    /\ pc = "bright"
    /\ correction_factor' = AssignBright(correction_factor, bright_correct, bp_rp_c)
    /\ args' = CallerAfter(args, "bright", correction_factor')
    /\ pc' = StepAfter(pc)
    /\ UNCHANGED <<locals, do_not_correct, bright_correct, faint_correct,
                   bp_rp_c, gmag_corrected, gflux_corrected, error, passed>>

\* lines 96-97
Outputs ==
    /\ pc = "outputs"
    /\ gmag_corrected' = GmagCorrected(phot_g_mean_mag, correction_factor)
    /\ gflux_corrected' = GfluxCorrected(phot_g_mean_flux, correction_factor)
    /\ args' = CallerAfter(args, "outputs", gmag_corrected')
    /\ pc' = StepAfter(pc)
    /\ UNCHANGED <<locals, do_not_correct, bright_correct, faint_correct,
                   bp_rp_c, correction_factor, error, passed>>

\* line 99
Return ==
    /\ pc = "return"
    /\ pc' = StepAfter(pc)
    /\ UNCHANGED <<args, locals, computed, error, passed>>

\* the call is over: its frame is dropped, nothing is kept for the next call
EndOfCall ==
    /\ pc \in {"returned", "raised"}
    /\ pc' = "idle"
    /\ args' = NoArgs
    /\ passed' = NoArgs
    /\ bp_rp' = Unset
    /\ astrometric_params_solved' = Unset
    /\ phot_g_mean_mag' = Unset
    /\ phot_g_mean_flux' = Unset
    /\ do_not_correct' = Unset
    /\ bright_correct' = Unset
    /\ faint_correct' = Unset
    /\ bp_rp_c' = Unset
    /\ correction_factor' = Unset
    /\ gmag_corrected' = Unset
    /\ gflux_corrected' = Unset
    /\ error' = "none"

Next ==
    \/ Call
    \/ CallWithLists
    \/ CastScalars
    \/ CheckShapes
    \/ Masks
    \/ ClipColour
    \/ FactorOnes
    \/ FactorFaint
    \/ FactorBright
    \/ Outputs
    \/ Return
    \/ EndOfCall

Spec == Init /\ [][Next]_vars

(***************************************************************************)
(* Properties                                                              *)
(***************************************************************************)
\* the shape of an input as the caller supplies it: () for a scalar
InputShape(x) == IF x.kind = "ndarray" THEN <<Len(x.val)>> ELSE <<>>

InputShapes == <<InputShape(args.bp_rp), InputShape(args.astrometric_params_solved),
                 InputShape(args.phot_g_mean_mag), InputShape(args.phot_g_mean_flux)>>

InCall == pc # "idle"
\* the four inputs are what the function is written for: numbers and arrays
NumericInputs ==
    \A k \in {args.bp_rp, args.astrometric_params_solved,
               args.phot_g_mean_mag, args.phot_g_mean_flux} :
        k.kind \in {"pyscalar", "ndarray"}
NumericCall == InCall /\ NumericInputs
BeforeCheck == pc \in {"cast", "check"}
FactorFinal == pc \in {"outputs", "return", "returned"}
HasResult == pc \in {"return", "returned"}
NothingComputed ==
    /\ do_not_correct = Unset /\ bright_correct = Unset /\ faint_correct = Unset
    /\ bp_rp_c = Unset /\ correction_factor = Unset
    /\ gmag_corrected = Unset /\ gflux_corrected = Unset

Elements == 1..Len(args.phot_g_mean_mag.val)
ColourOf(i) == args.bp_rp.val[i]
CodeOf(i) == args.astrometric_params_solved.val[i]
MagOf(i) == args.phot_g_mean_mag.val[i]
FluxOf(i) == args.phot_g_mean_flux.val[i]

\* the two cubics with their coefficients written out, for a colour in quarters,
\* in units of 1/6400000
ExpectedFaint(c) == 6433600 - 37168 * c + 6960 * c * c - 253 * c * c * c
ExpectedBright(c) == 6456064 - 40640 * c + 6988 * c * c - 277 * c * c * c
ExpectedClip(c) == IF c <= 1 THEN 1 ELSE IF c >= 12 THEN 12 ELSE c

\* C1: every element whose solution code is not 95, or whose magnitude is
\* <= 13, or whose colour is NaN comes back unchanged, in scalar and in vector
\* calls: factor 1, corrected magnitude = magnitude, corrected flux = flux.
C1_IdentityOnExclusion ==
    HasResult =>
        \A i \in Elements :
            (CodeOf(i) # 95 * CodeScale \/ Le(MagOf(i), 13 * MagScale) \/ IsNaN(ColourOf(i)))
                => /\ correction_factor.val[i] = FactorScale
                   /\ gmag_corrected.val[i] = MagOf(i)
                   /\ gflux_corrected.val[i] = FluxOf(i)

\* position k of the four inputs is the odd one out: the other three have one
\* shape and input k has another
OddOneOut(k) ==
    /\ \A i, j \in (1..4) \ {k} : InputShapes[i] = InputShapes[j]
    /\ \E i \in (1..4) \ {k} : InputShapes[i] # InputShapes[k]

\* C2: a call in which exactly one of the four inputs differs in shape from
\* the other three (scalars, or arrays of one length) never gets past the
\* check of line 82 and ends with the shape-mismatch ValueError, whichever
\* of the four positions differs.
C2_ShapeMismatchDetected ==
    \A k \in 1..4 :
        (NumericCall /\ OddOneOut(k)) =>
            /\ pc \in {"cast", "check", "raised"}
            /\ pc = "raised" => error = ShapeError
            /\ pc = "check" =>
                  ~ShapesEqual(bp_rp, astrometric_params_solved,
                               phot_g_mean_mag, phot_g_mean_flux)

\* C2, reached: the flux alone is longer than three equal-length arrays, and
\* the call has raised
C2_Witness ==
    /\ pc = "raised" /\ error = ShapeError /\ NumericInputs
    /\ OddOneOut(4)
    /\ args.bp_rp.kind = "ndarray" /\ args.phot_g_mean_flux.kind = "ndarray"

\* C3: in a vector call, output element i equals the output of the scalar
\* call on the i-th values of the four inputs.
C3_ScalarVectorEquivalence ==
    (HasResult /\ args.phot_g_mean_mag.kind = "ndarray") =>
        \A i \in Elements :
            LET one == correct_gband(Scalar(ColourOf(i)), Scalar(CodeOf(i)),
                                     Scalar(MagOf(i)), Scalar(FluxOf(i)))
            IN  /\ one.error = "none"
                /\ one.gmag.val[1] = gmag_corrected.val[i]
                /\ one.gflux.val[1] = gflux_corrected.val[i]

\* the scalar call of the concrete scenario: colour 1.5, solution code 95,
\* magnitude 17.0, flux 1000.0
Scenario ==
    /\ args.bp_rp = Scalar(6)
    /\ args.astrometric_params_solved = Scalar(95 * CodeScale)
    /\ args.phot_g_mean_mag = Scalar(17 * MagScale)
    /\ args.phot_g_mean_flux = Scalar(1000 * FluxScale)

\* C4 as stated: the scenario takes the faint branch with clipped colour 1.5
\* and yields factor 0.98088, flux 980.88 (below the input) and magnitude
\* 17.0209 (above the input), each to the digits given.
C4_ScenarioAsStated ==
    (HasResult /\ Scenario) =>
        /\ faint_correct.val[1] /\ ~bright_correct.val[1]
        /\ bp_rp_c.val[1] = 6
        /\ correction_factor.val[1] \in 6277568..6277696      \* 0.98087 .. 0.98089
        /\ gflux_corrected.val[1] \in 980870..980890          \* 980.87 .. 980.89
        /\ gflux_corrected.val[1] < 1000 * FluxScale
        /\ gmag_corrected.val[1] \in 17020800..17021000       \* 17.0208 .. 17.0210
        /\ gmag_corrected.val[1] > 17 * MagScale

\* C4, amended: the scenario takes the faint branch with clipped colour 1.5
\* and yields factor 1.00102 (1.00525 - 0.034845 + 0.03915 - 0.00853875),
\* flux 1001.02 (above the input) and magnitude 16.9989 (below the input).
C4_ScenarioFaint ==
    (HasResult /\ Scenario) =>
        /\ faint_correct.val[1] /\ ~bright_correct.val[1]
        /\ bp_rp_c.val[1] = 6
        /\ correction_factor.val[1] \in 6406464..6406528      \* 1.00101 .. 1.00102
        /\ gflux_corrected.val[1] \in 1001010..1001020        \* 1001.01 .. 1001.02
        /\ gflux_corrected.val[1] > 1000 * FluxScale
        /\ gmag_corrected.val[1] \in 16998800..16999000       \* 16.9988 .. 16.9990
        /\ gmag_corrected.val[1] < 17 * MagScale

\* C4, reached: the scenario's call has returned magnitude 16.998897
C4_Witness == pc = "returned" /\ Scenario /\ gmag_corrected.val[1] = 16998897

\* some inputs are scalars, the others arrays of one element
MixedSingle ==
    /\ \E k \in 1..4 : InputShapes[k] = <<>>
    /\ \E k \in 1..4 : InputShapes[k] = <<1>>
    /\ \A k \in 1..4 : InputShapes[k] \in {<<>>, <<1>>}
    /\ NumericInputs

\* C5 as stated: a call that mixes scalars with single-element arrays does
\* not end in the shape-mismatch error.
C5_MixedAccepted == (InCall /\ MixedSingle) => pc # "raised"

\* C5, amended: a call that mixes scalars with single-element arrays never
\* gets past the check of line 82 and ends in the shape-mismatch error: after
\* the casts a scalar has shape () and a one-element array shape (1,).
C5_MixedRejected ==
    (InCall /\ MixedSingle) =>
        /\ pc \in {"cast", "check", "raised"}
        /\ pc = "raised" => error = ShapeError
        /\ pc = "check" =>
              ~ShapesEqual(bp_rp, astrometric_params_solved,
                           phot_g_mean_mag, phot_g_mean_flux)

\* C5, reached: a call mixing scalars and one-element arrays has raised the
\* shape-mismatch error with nothing computed
C5_Witness == pc = "raised" /\ MixedSingle /\ error = ShapeError /\ NothingComputed

\* element i has solution code 95 and a colour
SixPWithColour(i) == CodeOf(i) = 95 * CodeScale /\ ~IsNaN(ColourOf(i))

\* C6: for an element with solution code 95 and a non-NaN colour, magnitude
\* 13.0 is left uncorrected and the magnitude just above 13.0 gets the bright
\* cubic; magnitude 16.0 gets the bright cubic and the magnitude just above
\* 16.0 the faint cubic.
C6_RegimeThresholds ==
    FactorFinal =>
        \A i \in Elements :
            SixPWithColour(i) =>
                /\ MagOf(i) = 13 * MagScale =>
                      /\ do_not_correct.val[i]
                      /\ correction_factor.val[i] = FactorScale
                /\ MagOf(i) = 13 * MagScale + 1 =>
                      /\ bright_correct.val[i] /\ ~faint_correct.val[i]
                      /\ correction_factor.val[i] = ExpectedBright(ExpectedClip(ColourOf(i)))
                /\ MagOf(i) = 16 * MagScale =>
                      /\ bright_correct.val[i] /\ ~faint_correct.val[i]
                      /\ correction_factor.val[i] = ExpectedBright(ExpectedClip(ColourOf(i)))
                /\ MagOf(i) = 16 * MagScale + 1 =>
                      /\ faint_correct.val[i] /\ ~bright_correct.val[i]
                      /\ correction_factor.val[i] = ExpectedFaint(ExpectedClip(ColourOf(i)))

\* C6, reached: a returned vector call whose first element sits at 16.0 and
\* got the bright factor, which differs from 1 and from the faint factor
C6_Witness ==
    /\ pc = "returned" /\ args.phot_g_mean_mag.kind = "ndarray"
    /\ SixPWithColour(1) /\ MagOf(1) = 16 * MagScale
    /\ correction_factor.val[1] = ExpectedBright(ExpectedClip(ColourOf(1)))
    /\ correction_factor.val[1] # FactorScale
    /\ correction_factor.val[1] # ExpectedFaint(ExpectedClip(ColourOf(1)))

\* C7: every element with solution code 95, a non-NaN colour and magnitude
\* > 13 gets the cubic of its own regime in the clipped colour: the faint
\* coefficients when magnitude > 16, the bright ones when 13 < magnitude <= 16.
C7_RegimePolynomial ==
    FactorFinal =>
        \A i \in Elements :
            (SixPWithColour(i) /\ Gt(MagOf(i), 13 * MagScale)) =>
                correction_factor.val[i] =
                    IF MagOf(i) > 16 * MagScale
                    THEN ExpectedFaint(ExpectedClip(ColourOf(i)))
                    ELSE ExpectedBright(ExpectedClip(ColourOf(i)))

\* C7, reached: a returned vector call with a faint first element and a bright
\* second element, each with the factor of its own cubic
C7_Witness ==
    /\ pc = "returned" /\ Len(args.phot_g_mean_mag.val) = 2
    /\ SixPWithColour(1) /\ Gt(MagOf(1), 16 * MagScale)
    /\ SixPWithColour(2) /\ Gt(MagOf(2), 13 * MagScale) /\ Le(MagOf(2), 16 * MagScale)
    /\ correction_factor.val[1] = ExpectedFaint(ExpectedClip(ColourOf(1)))
    /\ correction_factor.val[2] = ExpectedBright(ExpectedClip(ColourOf(2)))
    /\ correction_factor.val[1] # ExpectedBright(ExpectedClip(ColourOf(1)))
    /\ correction_factor.val[2] # ExpectedFaint(ExpectedClip(ColourOf(2)))

ClipDone == pc \in {"ones", "faint", "bright", "outputs", "return", "returned"}

\* C8: the colour used in the cubic is 0.25 for every colour <= 0.25 and 3.0
\* for every colour >= 3.0, clipping it again changes nothing, and within a
\* regime the factor is one constant for all colours <= 0.25 and one constant
\* for all colours >= 3.0.
C8_Clipping ==
    /\ ClipDone =>
          \A i \in Elements :
              /\ (~IsNaN(ColourOf(i)) /\ ColourOf(i) <= 1) => bp_rp_c.val[i] = 1
              /\ (~IsNaN(ColourOf(i)) /\ ColourOf(i) >= 12) => bp_rp_c.val[i] = 12
              /\ ClipAt(bp_rp_c.val[i]) = bp_rp_c.val[i]
    /\ FactorFinal =>
          \A i \in Elements :
              (SixPWithColour(i) /\ Gt(MagOf(i), 13 * MagScale)) =>
                  /\ (ColourOf(i) <= 1 /\ MagOf(i) > 16 * MagScale)
                        => correction_factor.val[i] = 6403139      \* 1.00049
                  /\ (ColourOf(i) <= 1 /\ MagOf(i) <= 16 * MagScale)
                        => correction_factor.val[i] = 6422135      \* 1.00346
                  /\ (ColourOf(i) >= 12 /\ MagOf(i) > 16 * MagScale)
                        => correction_factor.val[i] = 6552640      \* 1.02385
                  /\ (ColourOf(i) >= 12 /\ MagOf(i) <= 16 * MagScale)
                        => correction_factor.val[i] = 6496000      \* 1.01500

\* C8, reached: a returned call with a faint element of colour 3.5, clipped to
\* 3.0, with the factor of colour 3.0
C8_Witness ==
    /\ pc = "returned"
    /\ SixPWithColour(1) /\ ColourOf(1) = 14 /\ MagOf(1) = 17 * MagScale
    /\ bp_rp_c.val[1] = 12
    /\ correction_factor.val[1] = 6552640

\* C9: the corrected magnitude of an element is NaN exactly when its input
\* magnitude is NaN, and its corrected flux is NaN exactly when its input flux
\* is NaN, whatever its colour and solution code.
C9_NaNPreservation ==
    HasResult =>
        \A i \in Elements :
            /\ IsNaN(gmag_corrected.val[i]) <=> IsNaN(MagOf(i))
            /\ IsNaN(gflux_corrected.val[i]) <=> IsNaN(FluxOf(i))

\* C9, reached: a returned vector call with a NaN magnitude that stayed NaN
\* next to an element of solution code 95 without a colour, fainter than 13,
\* whose magnitude and flux stayed numbers
C9_Witness ==
    /\ pc = "returned" /\ Len(args.phot_g_mean_mag.val) = 2
    /\ \E i, j \in Elements :
          /\ IsNaN(MagOf(i)) /\ IsNaN(gmag_corrected.val[i])
          /\ IsNaN(ColourOf(j)) /\ CodeOf(j) = 95 * CodeScale
          /\ Gt(MagOf(j), 13 * MagScale) /\ ~IsNaN(FluxOf(j))
          /\ ~IsNaN(gmag_corrected.val[j]) /\ ~IsNaN(gflux_corrected.val[j])

ShapesDisagree == \E i, j \in 1..4 : InputShapes[i] # InputShapes[j]

\* C10: when the four input shapes disagree the call raises the shape-mismatch
\* error at the check of line 82, before any mask, clipped colour, factor or
\* output exists; and whenever any of these exists the check has passed.
C10_ValidationFirst ==
    /\ (NumericCall /\ ShapesDisagree) =>
          /\ pc \in {"cast", "check", "raised"}
          /\ NothingComputed
          /\ pc = "raised" => error = ShapeError
    /\ ~NothingComputed =>
          /\ pc \notin {"cast", "check", "raised"}
          /\ ~ShapesDisagree
    /\ (NumericCall /\ pc = "raised") => ShapesDisagree

\* C10, reached: a call of a two-element colour with three scalars has raised
\* with nothing computed
C10_Witness ==
    /\ pc = "raised" /\ error = ShapeError /\ NothingComputed /\ NumericInputs
    /\ InputShapes = <<(<<2>>), (<<>>), (<<>>), (<<>>)>>

\* C11: both outputs of an element come from its one correction factor,
\* corrected flux = flux * factor and corrected magnitude = magnitude -
\* 2.5*log10(factor); with factor 1 both are the inputs, with another factor
\* both differ from them, and for a positive flux the corrected flux is above
\* the flux exactly when the corrected magnitude is below the magnitude.
C11_OneFactor ==
    HasResult =>
        \A i \in Elements :
            LET F == correction_factor.val[i]
            IN  /\ gflux_corrected.val[i] = TimesFactor(FluxOf(i), F)
                /\ gmag_corrected.val[i] = Minus(MagOf(i), TwoPointFiveLog10(F))
                /\ F = FactorScale =>
                      /\ gflux_corrected.val[i] = FluxOf(i)
                      /\ gmag_corrected.val[i] = MagOf(i)
                /\ F # FactorScale =>
                      /\ ~IsNaN(MagOf(i)) => gmag_corrected.val[i] # MagOf(i)
                      /\ Gt(FluxOf(i), 0) => gflux_corrected.val[i] # FluxOf(i)
                /\ (Gt(FluxOf(i), 0) /\ ~IsNaN(MagOf(i))) =>
                      (gflux_corrected.val[i] > FluxOf(i)
                          <=> gmag_corrected.val[i] < MagOf(i))

\* C11, reached: a returned vector call with an element of positive flux whose
\* flux went up and magnitude down, next to one with factor 1 whose flux and
\* magnitude are the inputs
C11_Witness ==
    /\ pc = "returned" /\ Len(args.phot_g_mean_mag.val) = 2
    /\ \E i, j \in Elements :
          /\ Gt(FluxOf(i), 0) /\ correction_factor.val[i] > FactorScale
          /\ gflux_corrected.val[i] > FluxOf(i) /\ gmag_corrected.val[i] < MagOf(i)
          /\ Gt(FluxOf(j), 0) /\ ~IsNaN(MagOf(j))
          /\ correction_factor.val[j] = FactorScale
          /\ gflux_corrected.val[j] = FluxOf(j) /\ gmag_corrected.val[j] = MagOf(j)

\* C12 as stated: what is subtracted from the magnitude is -2.5*log10(factor),
\* so an element whose factor is above 1 gets a corrected magnitude above its
\* input magnitude.
C12_MinusTwoPointFive ==
    HasResult =>
        \A i \in Elements :
            /\ gmag_corrected.val[i] =
                   Minus(MagOf(i), Minus(0, TwoPointFiveLog10(correction_factor.val[i])))
            /\ (~IsNaN(MagOf(i)) /\ correction_factor.val[i] > FactorScale)
                   => gmag_corrected.val[i] > MagOf(i)

\* C12, amended: what is subtracted from the magnitude is 2.5*log10(factor),
\* so an element whose factor is above 1 gets a corrected magnitude below its
\* input magnitude, and one whose factor is below 1 a magnitude above it.
C12_TwoPointFive ==
    HasResult =>
        \A i \in Elements :
            /\ gmag_corrected.val[i] =
                   Minus(MagOf(i), TwoPointFiveLog10(correction_factor.val[i]))
            /\ (~IsNaN(MagOf(i)) /\ correction_factor.val[i] > FactorScale)
                   => gmag_corrected.val[i] < MagOf(i)
            /\ (~IsNaN(MagOf(i)) /\ correction_factor.val[i] < FactorScale)
                   => gmag_corrected.val[i] > MagOf(i)

\* C12, reached: a returned scalar call at magnitude 17.0 with the factor of
\* colour 3.0, 1.02385, whose corrected magnitude is 16.974411 = 17.0 -
\* 2.5*log10(1.02385)
C12_Witness ==
    /\ pc = "returned" /\ args.phot_g_mean_mag = Scalar(17 * MagScale)
    /\ correction_factor.val[1] = 6552640
    /\ gmag_corrected.val[1] \in 16974400..16974420

\* what the function, applied to the four inputs as they were passed, ends
\* with
OutcomeOfPassed ==
    correct_gband(passed.bp_rp, passed.astrometric_params_solved,
                  passed.phot_g_mean_mag, passed.phot_g_mean_flux)

\* no name of the function's frame is bound
NothingBound ==
    /\ bp_rp = Unset /\ astrometric_params_solved = Unset
    /\ phot_g_mean_mag = Unset /\ phot_g_mean_flux = Unset
    /\ NothingComputed /\ error = "none"

OneElement(i) ==
    correct_gband(Value("ndarray", <<ColourOf(i)>>), Value("ndarray", <<CodeOf(i)>>),
                  Value("ndarray", <<MagOf(i)>>), Value("ndarray", <<FluxOf(i)>>))

\* C14: whenever the function returns, the corrected magnitude and the
\* corrected flux each have the shape of the four inputs: a single value, not
\* an array, for scalar inputs, an array of their length for array inputs,
\* whose element i is what the function makes of element i of the inputs.
C14_OutputShape ==
    HasResult =>
        /\ \A k \in 1..4 :
              /\ Shape(gmag_corrected) = InputShapes[k]
              /\ Shape(gflux_corrected) = InputShapes[k]
        /\ args.phot_g_mean_mag.kind = "pyscalar" =>
              /\ IsScalar(gmag_corrected) /\ Len(gmag_corrected.val) = 1
              /\ IsScalar(gflux_corrected) /\ Len(gflux_corrected.val) = 1
        /\ args.phot_g_mean_mag.kind = "ndarray" =>
              /\ gmag_corrected.kind = "ndarray" /\ gflux_corrected.kind = "ndarray"
              /\ Len(gmag_corrected.val) = Len(args.phot_g_mean_mag.val)
              /\ Len(gflux_corrected.val) = Len(args.phot_g_mean_flux.val)
              /\ \A i \in Elements :
                    /\ gmag_corrected.val[i] = OneElement(i).gmag.val[1]
                    /\ gflux_corrected.val[i] = OneElement(i).gflux.val[1]

\* C14, reached: a scalar call has returned a single corrected magnitude and
\* a single corrected flux, neither an array, both different from the inputs
C14_Witness ==
    /\ pc = "returned" /\ InputShapes = <<(<<>>), (<<>>), (<<>>), (<<>>)>>
    /\ NumericInputs
    /\ gmag_corrected.kind = "npscalar" /\ gflux_corrected.kind = "npscalar"
    /\ Shape(gmag_corrected) = <<>> /\ Shape(gflux_corrected) = <<>>
    /\ gmag_corrected.val[1] # MagOf(1) /\ gflux_corrected.val[1] # FluxOf(1)

InputKinds ==
    {args.bp_rp.kind, args.astrometric_params_solved.kind,
     args.phot_g_mean_mag.kind, args.phot_g_mean_flux.kind}

\* at least one input is a Python list or tuple, the others are lists, tuples
\* or scalars
ListCall == InCall /\ "list" \in InputKinds /\ InputKinds \subseteq {"list", "pyscalar"}

\* C16: a call in which at least one input is a Python list or tuple, the
\* others being lists, tuples or scalars, never computes or returns anything:
\* it ends at line 82, in the shape-mismatch ValueError when some input is a
\* scalar, and in the failure to read the .shape of a list when none is.
C16_ListsRejected ==
    ListCall =>
        /\ pc \in {"cast", "check", "raised"}
        /\ NothingComputed
        /\ pc = "raised" =>
              error = IF "pyscalar" \in InputKinds THEN ShapeError ELSE NoShapeError

\* C16, reached: a call on four lists of two elements each has raised the
\* AttributeError, with nothing computed
C16_Witness ==
    /\ pc = "raised" /\ error = NoShapeError /\ NothingComputed
    /\ InputKinds = {"list"}
    /\ \A k \in {args.bp_rp, args.astrometric_params_solved,
                  args.phot_g_mean_mag, args.phot_g_mean_flux} : Len(k.val) = 2

MasksDone ==
    pc \in {"clip", "ones", "faint", "bright", "outputs", "return", "returned"}

\* how many of the three masks are true at element i
MasksTrue(i) ==
    (IF do_not_correct.val[i] THEN 1 ELSE 0)
      + (IF bright_correct.val[i] THEN 1 ELSE 0)
      + (IF faint_correct.val[i] THEN 1 ELSE 0)

\* the factor, had lines 93-94 been run before lines 91-92
BrightThenFaint ==
    AssignFaint(AssignBright(OnesLike(phot_g_mean_mag), bright_correct, bp_rp_c),
                faint_correct, bp_rp_c)

\* C17 as stated: for every element and every input value, NaN magnitude and
\* NaN colour included, exactly one of do_not_correct, bright_correct and
\* faint_correct is true, and the order of the two assignments does not
\* matter.
C17_MasksPartition ==
    /\ MasksDone => \A i \in Elements : MasksTrue(i) = 1
    /\ FactorFinal => correction_factor = BrightThenFaint

\* C17, amended: for every element at most one of the three masks is true,
\* and exactly one unless the magnitude is NaN while the colour is not NaN
\* and the solution code tested at line 85 is 95: then none is true, and the
\* factor stays 1; every element outside do_not_correct with a magnitude is
\* in exactly one of bright_correct and faint_correct; and the order of the
\* two assignments does not matter.
C17_MasksDisjoint ==
    /\ MasksDone =>
          \A i \in Elements :
              /\ MasksTrue(i) <= 1
              /\ MasksTrue(i) = 0 <=>
                    /\ IsNaN(MagOf(i)) /\ ~IsNaN(ColourOf(i))
                    /\ astrometric_params_solved.val[i] = SixParameter * CodeScale
              /\ (~do_not_correct.val[i] /\ ~IsNaN(MagOf(i))) =>
                    (bright_correct.val[i] <=> ~faint_correct.val[i])
    /\ FactorFinal =>
          /\ correction_factor = BrightThenFaint
          /\ \A i \in Elements :
                MasksTrue(i) = 0 => correction_factor.val[i] = FactorScale

\* C17, reached: a vector call has returned with an element in none of the
\* three masks (NaN magnitude, solution code 95, a colour) whose factor is 1,
\* next to an element in exactly one mask
C17_Witness ==
    /\ pc = "returned" /\ Len(args.phot_g_mean_mag.val) = 2
    /\ \E i, j \in Elements :
          /\ MasksTrue(i) = 0 /\ IsNaN(MagOf(i)) /\ CodeOf(i) = 95 * CodeScale
          /\ correction_factor.val[i] = FactorScale
          /\ MasksTrue(j) = 1

\* C18: in a scalar call as in a vector call, the solution code tested at
\* line 85 is the value as supplied and the test is exact equality with 95:
\* an element is excluded exactly when its colour is NaN, its magnitude is
\* <= 13 or its supplied code is not 95, so that a code of 95.5 is left
\* uncorrected in both forms of call.
C18_ExactCodeTest ==
    /\ MasksDone =>
          \A i \in Elements :
              /\ astrometric_params_solved.val[i] = CodeOf(i)
              /\ do_not_correct.val[i] <=>
                    \/ IsNaN(ColourOf(i))
                    \/ Le(MagOf(i), 13 * MagScale)
                    \/ CodeOf(i) # 95 * CodeScale
    /\ FactorFinal =>
          \A i \in Elements :
              CodeOf(i) = 95 * CodeScale + 1 => correction_factor.val[i] = FactorScale

\* 0.99 and 1.03 in the units of the factor
FactorLow == (99 * FactorScale) \div 100
FactorHigh == (103 * FactorScale) \div 100

\* C19: the factor of every element, in both regimes and for every clipped
\* colour, is a number strictly between 0.99 and 1.03, so its log10 is defined;
\* the correction puts no NaN where the input had a number and keeps the sign
\* of the flux.
C19_FactorRange ==
    /\ \A c \in ClipLo..ClipHi :
          /\ FactorLow < FaintFactor(c) /\ FaintFactor(c) < FactorHigh
          /\ FactorLow < BrightFactor(c) /\ BrightFactor(c) < FactorHigh
    /\ FactorFinal =>
          \A i \in Elements :
              /\ ~IsNaN(correction_factor.val[i])
              /\ FactorLow < correction_factor.val[i]
              /\ correction_factor.val[i] < FactorHigh
              /\ ~IsNaN(TwoPointFiveLog10(correction_factor.val[i]))
    /\ HasResult =>
          \A i \in Elements :
              /\ ~IsNaN(MagOf(i)) => ~IsNaN(gmag_corrected.val[i])
              /\ ~IsNaN(FluxOf(i)) =>
                    /\ ~IsNaN(gflux_corrected.val[i])
                    /\ FluxOf(i) > 0 => gflux_corrected.val[i] > 0
                    /\ FluxOf(i) < 0 => gflux_corrected.val[i] < 0
                    /\ FluxOf(i) = 0 => gflux_corrected.val[i] = 0

\* C19, reached: a call has returned for an element of negative flux with a
\* factor below 1 (above 0.99); its corrected flux is another negative number
\* and its corrected magnitude a number
C19_Witness ==
    /\ pc = "returned"
    /\ \E i \in Elements :
          /\ correction_factor.val[i] < FactorScale
          /\ correction_factor.val[i] > FactorLow
          /\ ~IsNaN(FluxOf(i)) /\ FluxOf(i) < 0
          /\ gflux_corrected.val[i] < 0 /\ gflux_corrected.val[i] # FluxOf(i)
          /\ ~IsNaN(gmag_corrected.val[i])

====
